---------------------------- MODULE Spec2Model ----------------------------
(***************************************************************************)
(* Function Plotter (src/main.py, src/custom_widgets.py).                  *)
(*                                                                         *)
(* The window holds three line edits (function, min, max), three error     *)
(* labels, a plot canvas and a navigation toolbar.  A click on "Plot" runs *)
(* MainWindow.plot, which clears the canvas, validates the three texts     *)
(* with Python's eval and, when everything evaluates, draws one curve.     *)
(*                                                                         *)
(* Texts are sequences of one-character strings.  Numbers are exact        *)
(* rationals scaled by a power of ten; a float has the range of a double,  *)
(* the rounding of its 53 bits is not modelled.                            *)
(***************************************************************************)
EXTENDS Integers, Sequences, FiniteSets, TLC

\* Longest text typed into the function field.
MaxFuncLen == 3

\* Longest text typed key by key into a bound field.
MaxBoundLen == 3

\* num argument of np.linspace in validate_function.
NumSamples == 1000

-----------------------------------------------------------------------------
(* The values of Python int and float objects.  A finite value is the      *)
(* triple <<n, d, e>> that stands for the number (n / d) * 10^e, with d > 0 *)
(* and coprime to n and to 10, and n not a multiple of 10 (zero is          *)
(* <<0, 1, 0>>), so that equal numbers are equal triples and a power of ten *)
(* such as 10^308 is written with small integers.  A float is modelled by   *)
(* the number it stands for and by its range: a result beyond the largest   *)
(* double is inf (d = 0).  The rounding of a double's 53 bits is not        *)
(* modelled.                                                                *)

Abs(n) == IF n < 0 THEN -n ELSE n

RECURSIVE Gcd(_, _)
Gcd(a, b) == IF b = 0 THEN a ELSE Gcd(b, a % b)

RECURSIVE Pow10(_)
Pow10(k) == IF k = 0 THEN 1 ELSE 10 * Pow10(k - 1)

\* The factors 2 and 5 of the denominator d > 0 go into the power of ten.
RECURSIVE ClearDenominator(_, _, _)
ClearDenominator(n, d, e) ==
    IF d % 2 = 0 THEN ClearDenominator(5 * n, d \div 2, e - 1)
    ELSE IF d % 5 = 0 THEN ClearDenominator(2 * n, d \div 5, e - 1)
    ELSE <<n, d, e>>

\* The factors 10 of the numerator n # 0 go into the power of ten.
RECURSIVE StripTens(_, _, _)
StripTens(n, d, e) ==
    IF n % 10 = 0 THEN StripTens(n \div 10, d, e + 1) ELSE <<n, d, e>>

\* StripTens after ClearDenominator.
Canonical(c) == StripTens(c[1], c[2], c[3])

\* n / d in lowest terms with a positive denominator, g being gcd(|n|, |d|).
Lowest(n, d, e, g) ==
    IF d < 0 THEN ClearDenominator((-n) \div g, (-d) \div g, e)
    ELSE ClearDenominator(n \div g, d \div g, e)

\* (n / d) * 10^e for d # 0.
Rat(n, d, e) ==
    IF n = 0 THEN <<0, 1, 0>> ELSE Canonical(Lowest(n, d, e, Gcd(Abs(n), Abs(d))))

RatInt(n) == Rat(n, 1, 0)

\* inf and -inf; nan, and a value that the model does not compute (a root).
Inf(sign) == <<sign, 0, 0>>

NoRational == <<0, 0, 0>>

IsFinite(p) == p[2] # 0

Min(a, b) == IF a < b THEN a ELSE b

\* The numerator of p over the common power of ten 10^m, m <= p[3].
Scaled(p, m) == p[1] * Pow10(p[3] - m)

RatAdd(p, q) ==
    IF ~IsFinite(p) \/ ~IsFinite(q) THEN NoRational
    ELSE IF p[1] = 0 THEN q
    ELSE IF q[1] = 0 THEN p
    ELSE Rat(Scaled(p, Min(p[3], q[3])) * q[2] + Scaled(q, Min(p[3], q[3])) * p[2],
             p[2] * q[2], Min(p[3], q[3]))

RatNeg(p) == <<-p[1], p[2], p[3]>>

RatSub(p, q) == RatAdd(p, RatNeg(q))

RatMul(p, q) ==
    IF ~IsFinite(p) \/ ~IsFinite(q) THEN NoRational
    ELSE Rat(p[1] * q[1], p[2] * q[2], p[3] + q[3])

\* Only for q # 0.
RatDiv(p, q) ==
    IF ~IsFinite(p) \/ ~IsFinite(q) THEN NoRational
    ELSE Rat(p[1] * q[2], p[2] * q[1], p[3] - q[3])

Sign(n) == IF n < 0 THEN -1 ELSE IF n = 0 THEN 0 ELSE 1

\* p < q for two positive numbers: the powers of ten decide when they are
\* far apart, as n / d lies between 2^-31 and 2^31.
LessMagnitude(p, q) ==
    IF q[3] - p[3] > 18 THEN TRUE
    ELSE IF p[3] - q[3] > 18 THEN FALSE
    ELSE Scaled(p, Min(p[3], q[3])) * q[2] < Scaled(q, Min(p[3], q[3])) * p[2]

\* p < q as IEEE 754 orders them: nan is below nothing and nothing is below
\* nan.
RatLess(p, q) ==
    IF p = NoRational \/ q = NoRational THEN FALSE
    ELSE IF ~IsFinite(p) \/ ~IsFinite(q) THEN p # q /\ (p = Inf(-1) \/ q = Inf(1))
    ELSE IF Sign(p[1]) # Sign(q[1]) THEN Sign(p[1]) < Sign(q[1])
    ELSE IF p[1] > 0 THEN LessMagnitude(p, q)
    ELSE IF p[1] < 0 THEN LessMagnitude(RatNeg(q), RatNeg(p))
    ELSE FALSE

RatIsInteger(p) == p[2] = 1 /\ p[3] >= 0

\* The integer that p is.
IntOf(p) == p[1] * Pow10(p[3])

\* b to the power k >= 0, by squaring.
RECURSIVE IntPow(_, _)
IntPow(b, k) ==
    IF k = 0 THEN 1
    ELSE LET h == IntPow(b, k \div 2)
         IN  IF k % 2 = 0 THEN h * h ELSE h * h * b

\* p to the power k >= 0.
RatPowNat(p, k) == <<IntPow(p[1], k), IntPow(p[2], k), p[3] * k>>

\* |p| is beyond the largest double, 1.7976931348623157 * 10^308.  The test
\* is against 1.797693134 * 10^308 and is exact for d = 1: the numbers of
\* that size that the modelled texts denote are whole numbers, and none
\* lies between the two.
FloatOverflows(p) ==
    /\ IsFinite(p)
    /\ p[1] # 0
    /\ p[3] >= 299
    /\ \/ p[3] >= 309 /\ Abs(p[1]) >= p[2]
       \/ p[3] < 309 /\ Abs(p[1]) > (1797693134 \div Pow10(p[3] - 299)) * p[2]

\* The float that a computed number becomes: inf beyond the range.
FloatOf(p) ==
    IF FloatOverflows(p) THEN Inf(IF p[1] < 0 THEN -1 ELSE 1) ELSE p

-----------------------------------------------------------------------------
(* Characters of the texts.                                                *)

Digits == {"0", "1", "2", "3", "4", "5", "6", "7", "8", "9"}

\* The letters of the modelled texts; an identifier is a letter followed by
\* letters and digits.
Letters == {"x", "z", "n", "p"}

DigitValue(c) ==
    CASE c = "0" -> 0 [] c = "1" -> 1 [] c = "2" -> 2 [] c = "3" -> 3
      [] c = "4" -> 4 [] c = "5" -> 5 [] c = "6" -> 6 [] c = "7" -> 7
      [] c = "8" -> 8 [] c = "9" -> 9

\* str.strip() leaves nothing: the text is empty or only white space.
IsBlank(s) == \A i \in 1..Len(s) : s[i] = " "

\* str.replace("^", "**")
RECURSIVE ReplacePower(_)
ReplacePower(s) ==
    IF s = <<>> THEN <<>>
    ELSE IF Head(s) = "^" THEN <<"*", "*">> \o ReplacePower(Tail(s))
    ELSE <<Head(s)>> \o ReplacePower(Tail(s))

-----------------------------------------------------------------------------
(* Python objects that eval can return for the modelled texts.             *)
(*   int, float     val is the value; Inf(1), Inf(-1) and, for nan and for *)
(*                  a value the model does not compute, NoRational         *)
(*   float64        a numpy scalar, e.g. x[5]                              *)
(*   complex        a negative base to a fractional power                  *)
(*   ndarray        shape is its numpy shape, data says how it was built   *)
(*   list           its elements are elems, repeated times times           *)
(*   ellipsis       the object the text ... evaluates to                   *)
(*   module         the numpy module, bound to the global name np          *)

PyObj(k, v, sh, el, d) ==
    [kind |-> k, val |-> v, shape |-> sh, elems |-> el, times |-> 1, data |-> d]

PyNone == PyObj("None", NoRational, <<>>, <<>>, <<>>)

PyInt(q) == PyObj("int", q, <<>>, <<>>, <<>>)

PyFloat(q) == PyObj("float", q, <<>>, <<>>, <<>>)

PyFloat64(q) == PyObj("float64", q, <<>>, <<>>, <<>>)

PyComplex == PyObj("complex", NoRational, <<>>, <<>>, <<>>)

PyNdarray(sh, d) == PyObj("ndarray", NoRational, sh, <<>>, d)

PyList(el) == PyObj("list", NoRational, <<>>, el, <<>>)

\* el * n for a list el: the elements are not copied out.
PyListTimes(el, n) ==
    [kind |-> "list", val |-> NoRational, shape |-> <<>>,
     elems |-> IF n <= 0 THEN <<>> ELSE el, times |-> IF n <= 0 THEN 1 ELSE n,
     data |-> <<>>]

PyModule == PyObj("module", NoRational, <<>>, <<>>, <<>>)

PyEllipsis == PyObj("ellipsis", NoRational, <<>>, <<>>, <<>>)

\* len(v) of a list.
ListLen(v) == Len(v.elems) * v.times

\* v[k] of a list, k a valid 0-based index.
ListItem(v, k) == v.elems[(k % Len(v.elems)) + 1]

\* The elements of a list, written out.
RECURSIVE Repeated(_, _)
Repeated(el, k) == IF k <= 0 THEN <<>> ELSE el \o Repeated(el, k - 1)

ListElems(v) == Repeated(v.elems, v.times)

IsNumpy(v) == v.kind \in {"ndarray", "float64"}

\* The outcome of an evaluation step: a value, or an exception was raised.
Raised == [ok |-> FALSE, val |-> PyNone]

Returned(v) == [ok |-> TRUE, val |-> v]

\* How a value enters the description of an array computed from it.
Repr(v) ==
    CASE v.kind = "ndarray" -> v.data
      [] v.kind = "list" -> <<"list", v.elems, v.times>>
      [] OTHER -> <<v.kind, v.val>>

\* np.asarray(v).shape for a value that converts to a numeric array, and
\* <<-1>> for one that does not (a module, a ragged list).
RECURSIVE ArrayShape(_)
ArrayShape(v) ==
    CASE v.kind \in {"int", "float", "float64", "complex"} -> <<>>
      [] v.kind = "ndarray" -> v.shape
      [] v.kind = "list" ->
            IF v.elems = <<>> THEN <<0>>
            ELSE LET s == ArrayShape(v.elems[1])
                 IN  IF s # <<-1>> /\ \A i \in 1..Len(v.elems) : ArrayShape(v.elems[i]) = s
                     THEN <<ListLen(v)>> \o s
                     ELSE <<-1>>
      [] OTHER -> <<-1>>

\* numpy broadcasting of two shapes, aligned at their last dimension;
\* <<-1>> when they do not broadcast.
RECURSIVE Broadcast(_, _)
Broadcast(s, t) ==
    IF s = <<>> THEN t
    ELSE IF t = <<>> THEN s
    ELSE LET a == s[Len(s)]
             b == t[Len(t)]
             rest == Broadcast(SubSeq(s, 1, Len(s) - 1), SubSeq(t, 1, Len(t) - 1))
         IN  IF rest = <<-1>> THEN <<-1>>
             ELSE IF a = b \/ b = 1 THEN rest \o <<a>>
             ELSE IF a = 1 THEN rest \o <<b>>
             ELSE <<-1>>

-----------------------------------------------------------------------------
(* np.linspace(start, stop, num):                                          *)
(*   delta = stop - start; step = delta / (num - 1)                        *)
(*   y = arange(0, num) * step + start; y[-1] = stop                       *)
(* LinspaceAt is the element at the 0-based index i.  When stop - start is *)
(* beyond the range of a double, delta and step are inf, so that y[0] is   *)
(* 0 * inf + start = nan and the next ones are inf.                        *)

LinspaceAt(start, stop, num, i) ==
    IF num > 1 /\ i = num - 1 THEN stop
    ELSE IF num = 1 THEN start
    ELSE IF FloatOverflows(RatSub(stop, start))
    THEN IF i = 0 THEN NoRational ELSE Inf(IF RatLess(start, stop) THEN 1 ELSE -1)
    ELSE RatAdd(RatMul(RatInt(i), RatDiv(RatSub(stop, start), RatInt(num - 1))), start)

linspace(start, stop, num) ==
    PyNdarray(<<num>>, <<"linspace", start, stop, num>>)

-----------------------------------------------------------------------------
(* Arithmetic of the objects: the operators +, -, * and **.                *)

IsScalar(v) == v.kind \in {"int", "float", "float64", "complex"}

\* The kind of the result of an operator on two scalars.
ScalarKind(a, b) ==
    IF "complex" \in {a.kind, b.kind} THEN "complex"
    ELSE IF "float64" \in {a.kind, b.kind} THEN "float64"
    ELSE IF a.kind = "int" /\ b.kind = "int" THEN "int"
    ELSE "float"

\* The result of an operator on two scalars: an int is exact, a Python float
\* or a numpy scalar beyond the range of a double is inf.
ScalarResult(k, v) ==
    Returned(PyObj(k, IF k = "int" THEN v ELSE FloatOf(v), <<>>, <<>>, <<>>))

\* The result of ** on two scalars: beyond the range of a double, a numpy
\* scalar is inf and Python raises OverflowError.
PowResult(k, v) ==
    IF k = "float" /\ FloatOverflows(v) THEN Raised ELSE ScalarResult(k, v)

\* a ** b on two scalars with known values.
ScalarPow(a, b) ==
    LET k == ScalarKind(a, b)
        p == a.val
        q == b.val
    IN  IF RatIsInteger(q)
        THEN IF q[1] >= 0
             THEN PowResult(k, RatPowNat(p, IntOf(q)))
             ELSE IF p[1] = 0
             THEN \* a numpy scalar gives inf and a warning, Python raises
                  \* ZeroDivisionError
                  IF k = "float64" THEN Returned(PyFloat64(NoRational)) ELSE Raised
             ELSE PowResult(IF k = "int" THEN "float" ELSE k,
                            RatDiv(RatInt(1), RatPowNat(p, -IntOf(q))))
        ELSE \* a fractional exponent: the value is not computed
             IF p[1] < 0 /\ k # "float64" THEN Returned(PyComplex)
             ELSE Returned(PyObj(k, NoRational, <<>>, <<>>, <<>>))

ScalarOp(op, a, b) ==
    LET k == ScalarKind(a, b)
    IN  IF k = "complex" THEN Returned(PyComplex)
        ELSE IF ~IsFinite(a.val) \/ ~IsFinite(b.val)
        THEN Returned(PyObj(IF op = "**" /\ k = "int" THEN "float" ELSE k,
                            NoRational, <<>>, <<>>, <<>>))
        ELSE CASE op = "+" -> ScalarResult(k, RatAdd(a.val, b.val))
               [] op = "-" -> ScalarResult(k, RatSub(a.val, b.val))
               [] op = "*" -> ScalarResult(k, RatMul(a.val, b.val))
               [] op = "**" -> ScalarPow(a, b)

\* A numpy operand: the other one is converted with np.asarray and the two
\* are broadcast; the arithmetic itself only warns (inf, nan), never raises.
NumpyOp(op, a, b) ==
    LET sa == ArrayShape(a)
        sb == ArrayShape(b)
        s == IF sa = <<-1>> \/ sb = <<-1>> THEN <<-1>> ELSE Broadcast(sa, sb)
    IN  IF s = <<-1>> THEN Raised
        ELSE Returned(PyNdarray(s, <<op, Repr(a), Repr(b)>>))

\* list + list and list * int; every other use of a list raises TypeError.
ListOp(op, a, b) ==
    IF op = "+" /\ a.kind = "list" /\ b.kind = "list"
    THEN Returned(PyList(ListElems(a) \o ListElems(b)))
    ELSE IF op = "*" /\ a.kind = "list" /\ b.kind = "int"
    THEN Returned(PyListTimes(a.elems, a.times * IntOf(b.val)))
    ELSE IF op = "*" /\ a.kind = "int" /\ b.kind = "list"
    THEN Returned(PyListTimes(b.elems, b.times * IntOf(a.val)))
    ELSE Raised

BinOp(op, a, b) ==
    IF IsScalar(a) /\ IsScalar(b) THEN ScalarOp(op, a, b)
    ELSE IF IsNumpy(a) \/ IsNumpy(b) THEN NumpyOp(op, a, b)
    ELSE ListOp(op, a, b)

\* Unary - and +.
UnaryOp(op, v) ==
    IF IsScalar(v)
    THEN IF op = "-" /\ v.val # NoRational
         THEN Returned(PyObj(v.kind, RatNeg(v.val), <<>>, <<>>, <<>>))
         ELSE Returned(v)
    ELSE IF v.kind = "ndarray"
    THEN Returned(PyNdarray(v.shape, <<op, v.data>>))
    ELSE Raised

-----------------------------------------------------------------------------
(* Subscription a[i].                                                      *)

\* i is an integer, or a list of such, usable as an index into n elements.
RECURSIVE IsIntIndex(_, _)
IsIntIndex(i, n) ==
    CASE i.kind = "int" -> -n <= IntOf(i.val) /\ IntOf(i.val) < n
      [] i.kind = "list" ->
            /\ ArrayShape(i) # <<-1>>
            /\ \A j \in 1..Len(i.elems) : IsIntIndex(i.elems[j], n)
      [] OTHER -> FALSE

Subscript(a, i) ==
    CASE a.kind = "ndarray" ->
            LET n == a.shape[1]
                rest == Tail(a.shape)
            IN  CASE i.kind = "int" ->
                        IF ~IsIntIndex(i, n) THEN Raised
                        ELSE IF rest # <<>>
                        THEN Returned(PyNdarray(rest, <<"item", a.data, IntOf(i.val)>>))
                        ELSE IF a.data[1] = "linspace"
                        THEN Returned(PyFloat64(LinspaceAt(a.data[2], a.data[3], a.data[4],
                                        IF IntOf(i.val) < 0 THEN n + IntOf(i.val) ELSE IntOf(i.val))))
                        ELSE Returned(PyFloat64(NoRational))
                  [] i.kind = "list" ->
                        IF IsIntIndex(i, n)
                        THEN Returned(PyNdarray(ArrayShape(i) \o rest,
                                                <<"take", a.data, Repr(i)>>))
                        ELSE Raised
                  [] i.kind = "ndarray" ->
                        \* a float array indexes only when it is empty
                        IF \E d \in 1..Len(i.shape) : i.shape[d] = 0
                        THEN Returned(PyNdarray(i.shape \o rest,
                                                <<"take", a.data, i.data>>))
                        ELSE Raised
                  [] OTHER -> Raised
      [] a.kind = "list" ->
            IF i.kind = "int" /\ IsIntIndex(i, ListLen(a))
            THEN Returned(ListItem(a, IF IntOf(i.val) < 0 THEN ListLen(a) + IntOf(i.val)
                                      ELSE IntOf(i.val)))
            ELSE Raised
      [] OTHER -> Raised

-----------------------------------------------------------------------------
(* eval(text): the tokens of a Python expression.  A token is a number (a  *)
(* run of digits and points), a name (a letter, then letters and digits)   *)
(* or an operator.  White space separates tokens.  The modelled texts hold *)
(* no 0x, 0b, 0o, e, j or _ forms of a number, no quotes, commas,          *)
(* parentheses or attribute references.                                    *)

\* The last index j >= i - 1 with s[i..j] all in cs.
RECURSIVE RunEnd(_, _, _)
RunEnd(s, i, cs) ==
    IF i <= Len(s) /\ s[i] \in cs THEN RunEnd(s, i + 1, cs) ELSE i - 1

Token(ty, tx) == [type |-> ty, text |-> tx]

RECURSIVE Lex(_, _)
Lex(s, i) ==
    IF i > Len(s) THEN <<>>
    ELSE IF s[i] = " " THEN Lex(s, i + 1)
    ELSE IF s[i] \in Digits \cup {"."}
    THEN LET j == RunEnd(s, i, Digits \cup {"."})
         IN  <<Token("num", SubSeq(s, i, j))>> \o Lex(s, j + 1)
    ELSE IF s[i] \in Letters
    THEN LET j == RunEnd(s, i, Letters \cup Digits)
         IN  <<Token("name", SubSeq(s, i, j))>> \o Lex(s, j + 1)
    ELSE IF s[i] = "*" /\ i < Len(s) /\ s[i + 1] = "*"
    THEN <<Token("op", "**")>> \o Lex(s, i + 2)
    ELSE <<Token("op", s[i])>> \o Lex(s, i + 1)

RECURSIVE DigitsValue(_)
DigitsValue(ds) ==
    IF ds = <<>> THEN 0
    ELSE 10 * DigitsValue(SubSeq(ds, 1, Len(ds) - 1)) + DigitValue(ds[Len(ds)])

\* The value of a number token.  An integer literal: a nonzero digit and
\* digits, or zeros only.  A float literal: digits with one point.
NumberValue(t) ==
    LET ds == SelectSeq(t, LAMBDA c : c \in Digits)
        dots == Len(t) - Len(ds)
        point == CHOOSE k \in 1..Len(t) : t[k] = "."
    IN  IF ds = <<>> \/ dots > 1 THEN Raised
        ELSE IF dots = 0
        THEN IF Len(t) > 1 /\ t[1] = "0" /\ \E k \in 1..Len(t) : t[k] # "0"
             THEN Raised
             ELSE Returned(PyInt(RatInt(DigitsValue(ds))))
        ELSE Returned(PyFloat(FloatOf(Rat(DigitsValue(ds), 1, point - Len(t)))))

-----------------------------------------------------------------------------
(* eval(text): parsing and evaluating, by Python's grammar                 *)
(*   expr   := term (("+" | "-") term)*                                    *)
(*   term   := factor ("*" factor)*                                        *)
(*   factor := ("+" | "-") factor | power                                  *)
(*   power  := atom trailer* ["**" factor]                                 *)
(*   atom   := NUMBER | NAME | "[" [expr] "]"      trailer := "[" expr "]" *)
(* A step yields the value and the index of the next token, or fails: a    *)
(* SyntaxError, or the exception the evaluation raised.  env maps the      *)
(* names in scope to their values.                                         *)

PFail == [ok |-> FALSE, val |-> PyNone, pos |-> 0]

POk(v, p) == [ok |-> TRUE, val |-> v, pos |-> p]

PLift(r, p) == IF r.ok THEN POk(r.val, p) ELSE PFail

IsOp(ts, i, o) == i <= Len(ts) /\ ts[i].type = "op" /\ ts[i].text = o

\* The closing bracket of a list display [e].
CloseList(ts, e) ==
    IF e.ok /\ IsOp(ts, e.pos, "]") THEN POk(PyList(<<e.val>>), e.pos + 1) ELSE PFail

\* The closing bracket of a subscription a[e], and its value.
CloseSubscript(ts, a, e) ==
    IF a.ok /\ e.ok /\ IsOp(ts, e.pos, "]")
    THEN PLift(Subscript(a.val, e.val), e.pos + 1)
    ELSE PFail

\* op applied to the operand f, once f has been parsed.
ApplyUnary(op, f) == IF f.ok THEN PLift(UnaryOp(op, f.val), f.pos) ELSE PFail

\* l op r, once the right operand r has been parsed.
ApplyBinary(op, l, r) ==
    IF l.ok /\ r.ok THEN PLift(BinOp(op, l.val, r.val), r.pos) ELSE PFail

RECURSIVE ParseExpr(_, _, _)
RECURSIVE ExprRest(_, _, _)
RECURSIVE ParseTerm(_, _, _)
RECURSIVE TermRest(_, _, _)
RECURSIVE ParseFactor(_, _, _)
RECURSIVE ParsePower(_, _, _)
RECURSIVE PowerRest(_, _, _)
RECURSIVE ParseAtom(_, _, _)
RECURSIVE Trailers(_, _, _)

ParseAtom(ts, i, env) ==
    IF i > Len(ts) THEN PFail
    ELSE IF ts[i].type = "num"
    THEN IF ts[i].text = <<".", ".", ".">> THEN POk(PyEllipsis, i + 1)
         ELSE PLift(NumberValue(ts[i].text), i + 1)
    ELSE IF ts[i].type = "name"
    THEN IF ts[i].text \in DOMAIN env THEN POk(env[ts[i].text], i + 1)
         ELSE PFail    \* NameError
    ELSE IF IsOp(ts, i, "[")
    THEN IF IsOp(ts, i + 1, "]") THEN POk(PyList(<<>>), i + 2)
         ELSE CloseList(ts, ParseExpr(ts, i + 1, env))
    ELSE PFail

Trailers(ts, a, env) ==
    IF a.ok /\ IsOp(ts, a.pos, "[")
    THEN Trailers(ts, CloseSubscript(ts, a, ParseExpr(ts, a.pos + 1, env)), env)
    ELSE a

PowerRest(ts, a, env) ==
    IF a.ok /\ IsOp(ts, a.pos, "**")
    THEN ApplyBinary("**", a, ParseFactor(ts, a.pos + 1, env))
    ELSE a

ParsePower(ts, i, env) == PowerRest(ts, Trailers(ts, ParseAtom(ts, i, env), env), env)

ParseFactor(ts, i, env) ==
    IF IsOp(ts, i, "+") \/ IsOp(ts, i, "-")
    THEN ApplyUnary(ts[i].text, ParseFactor(ts, i + 1, env))
    ELSE ParsePower(ts, i, env)

TermRest(ts, l, env) ==
    IF l.ok /\ IsOp(ts, l.pos, "*")
    THEN TermRest(ts, ApplyBinary("*", l, ParseFactor(ts, l.pos + 1, env)), env)
    ELSE l

ParseTerm(ts, i, env) == TermRest(ts, ParseFactor(ts, i, env), env)

ExprRest(ts, l, env) ==
    IF l.ok /\ (IsOp(ts, l.pos, "+") \/ IsOp(ts, l.pos, "-"))
    THEN ExprRest(ts, ApplyBinary(ts[l.pos].text, l, ParseTerm(ts, l.pos + 1, env)), env)
    ELSE l

ParseExpr(ts, i, env) == ExprRest(ts, ParseTerm(ts, i, env), env)

\* The value of the expression r parsed from the tokens ts, when r is the
\* whole of a text that is not empty.
WholeText(ts, r) ==
    IF ts # <<>> /\ r.ok /\ r.pos = Len(ts) + 1 THEN Returned(r.val) ELSE Raised

EvalTokens(ts, env) == WholeText(ts, ParseExpr(ts, 1, env))

\* eval(text) with the names of env in scope: the value, or Raised.
PyEval(text, env) == EvalTokens(Lex(text, 1), env)

\* float(v): the value of an int or float; anything else raises.
\* An int beyond the range of a double raises OverflowError.
PyFloatOf(v) ==
    IF v.kind \in {"int", "float", "float64"} /\ ~(v.kind = "int" /\ FloatOverflows(v.val))
    THEN Returned(PyFloat(v.val))
    ELSE Raised

-----------------------------------------------------------------------------
(* The messages of src/constants.py.                                       *)

MIN_VALUE_EMPTY_ERROR == "Error: The min value is empty"

MIN_VALUE_INCORRECT_ERROR == "Error: The min value is incorrect"

MAX_VALUE_EMPTY_ERROR == "Error: The max value is empty"

MAX_VALUE_INCORRECT_ERROR == "Error: The max value is incorrect"

MIN_MAX_ERROR == "Error: The min value must be less than the max value"

FUNC_VALUE_EMPTY_ERROR == "Error: The function is empty"

FUNC_VALUE_INCORRECT_ERROR == "Error: The function is incorrect"

-----------------------------------------------------------------------------
(* The validator of a bound field: QRegExpValidator over                   *)
(*   [-+]?[0-9]*\.?[0-9]+([\^][-+]?[0-9]+)?                                 *)
(* A keystroke is kept when the new text matches the pattern or is the     *)
(* start of a match, and dropped otherwise.  MaskStep is the automaton of  *)
(* the pattern: 0 start, 1 after the sign, 2 in the digits, 3 after the    *)
(* point, 4 in the decimals, 5 after ^, 6 after the exponent's sign, 7 in  *)
(* the exponent, and -1 when no match starts with the text.                *)

MaskStep(q, c) ==
    CASE q = 0 /\ c \in {"-", "+"} -> 1
      [] q \in {0, 1, 2} /\ c \in Digits -> 2
      [] q \in {0, 1, 2} /\ c = "." -> 3
      [] q \in {3, 4} /\ c \in Digits -> 4
      [] q \in {2, 4} /\ c = "^" -> 5
      [] q = 5 /\ c \in {"-", "+"} -> 6
      [] q \in {5, 6, 7} /\ c \in Digits -> 7
      [] OTHER -> -1

RECURSIVE MaskState(_)
MaskState(s) ==
    IF s = <<>> THEN 0
    ELSE LET q == MaskState(SubSeq(s, 1, Len(s) - 1))
         IN  IF q = -1 THEN -1 ELSE MaskStep(q, s[Len(s)])

\* QValidator.Invalid is the only verdict that drops the keystroke.
MaskAdmits(s) == MaskState(s) # -1

-----------------------------------------------------------------------------
(* The window.                                                             *)

VARIABLES
    function_input,     \* text of the function line edit
    min_val_input,      \* text of the minimum x line edit
    max_val_input,      \* text of the maximum x line edit
    func_error_label,   \* text of the function error label
    min_error_label,    \* text of the minimum x error label
    max_error_label,    \* text of the maximum x error label
    canvas,             \* the axes of the canvas: lines, title, axis labels
    toolbar_enabled,    \* toolbar.isEnabled()
    call                \* what the last run of plot() read, returned and raised

vars == <<function_input, min_val_input, max_val_input, func_error_label,
          min_error_label, max_error_label, canvas, toolbar_enabled, call>>

\* The names of validate_and_return_min_max's scope that the modelled
\* letters can spell: the global np.
BoundEnv == (<<"n", "p">> :> PyModule)

\* The names of validate_function's scope that the modelled letters can
\* spell: the local x and the global np.
FuncEnv(x) == (<<"x">> :> x) @@ (<<"n", "p">> :> PyModule)

\* FloatOfResult that takes a text that does not evaluate for 0.
FloatOfResultLenient(r) == IF r.ok THEN PyFloatOf(r.val) ELSE Returned(PyFloat(RatInt(0)))

\* float(r) of the outcome r of eval.
FloatOfResult(r) == IF r.ok THEN PyFloatOf(r.val) ELSE Raised

\* text.replace("^", "**") and float(eval(text)) of a bound.
EvalBound(text) == FloatOfResult(PyEval(ReplacePower(text), BoundEnv))

\* IsEmptyText that strips the text first.
IsEmptyTextStripped(text) == IsBlank(text)

\* not min_value, not max_value: the text is the empty string
IsEmptyText(text) == text = <<>>

\* RangeRejected without the test for equal bounds.
RangeRejectedOnlyBelow(min_value, max_value) == RatLess(max_value, min_value)

\* max_value == min_value or max_value < min_value
RangeRejected(min_value, max_value) ==
    max_value = min_value \/ RatLess(max_value, min_value)

\* BoundLabel without the test for an empty text.
BoundLabelNoEmptyTest(text, r, empty_error, incorrect_error, label) ==
    IF ~r.ok THEN incorrect_error ELSE label

\* if not min_value: ... else: try: ... except: ...   (and the same for max)
BoundLabel(text, r, empty_error, incorrect_error, label) ==
    IF IsEmptyText(text) THEN empty_error
    ELSE IF ~r.ok THEN incorrect_error
    ELSE label

\* The outcome of validate_and_return_min_max, min_r and max_r being what
\* float(eval(...)) gave for the two texts.
MinMaxOutcome(min_text, max_text, labels, min_r, max_r) ==
    LET is_values_valid == /\ ~IsEmptyText(min_text) /\ min_r.ok
                           /\ ~IsEmptyText(max_text) /\ max_r.ok
        rejected == is_values_valid /\ RangeRejected(min_r.val.val, max_r.val.val)
        min_label == BoundLabel(min_text, min_r, MIN_VALUE_EMPTY_ERROR,
                                MIN_VALUE_INCORRECT_ERROR, labels.min)
        max_label == BoundLabel(max_text, max_r, MAX_VALUE_EMPTY_ERROR,
                                MAX_VALUE_INCORRECT_ERROR, labels.max)
    IN  [ok |-> is_values_valid /\ ~rejected,
         min_value |-> IF is_values_valid THEN min_r.val.val ELSE NoRational,
         max_value |-> IF is_values_valid THEN max_r.val.val ELSE NoRational,
         labels |-> [func |-> labels.func,
                     min |-> IF rejected THEN MIN_MAX_ERROR ELSE min_label,
                     max |-> IF rejected THEN MIN_MAX_ERROR ELSE max_label]]

validate_and_return_min_max(min_text, max_text, labels) ==
    MinMaxOutcome(min_text, max_text, labels, EvalBound(min_text), EvalBound(max_text))

\* reset_errors that leaves the labels as they are.
reset_errors_skipped(labels) == labels

reset_errors(labels) == [func |-> "", min |-> "", max |-> ""]

\* The tuple validate_function returns, or None (ok is FALSE).
NoSampleSet == [ok |-> FALSE, x |-> PyNone, y |-> PyNone, function_str |-> <<>>]

SampleSet(x, y, function_str) ==
    [ok |-> TRUE, x |-> x, y |-> y, function_str |-> function_str]

\* ReturnedText that hands on the rewritten text.
ReturnedTextModified(function_str, function_str_modified) == function_str_modified

\* The text handed on as the third element of the tuple.
ReturnedText(function_str, function_str_modified) == function_str

\* IsValid that forgets the outcome of the bounds.
IsValidFunctionOnly(function_str, min_max) == ~IsBlank(function_str)

\* is_valid after the checks of the function text and of the bounds
IsValid(function_str, min_max) == ~IsBlank(function_str) /\ min_max.ok

\* if not function_str.strip(): the function label gets its message
FunctionLabel(function_str, labels) ==
    IF IsBlank(function_str)
    THEN [labels EXCEPT !.func = FUNC_VALUE_EMPTY_ERROR]
    ELSE labels

\* The try block of validate_function: e is the outcome of eval.
Evaluated(function_str, min_max, x, e) ==
    IF e.ok
    THEN [x_y |-> SampleSet(x, e.val,
                            ReturnedText(function_str, ReplacePower(function_str))),
          min_max |-> min_max, evaluated |-> TRUE, labels |-> min_max.labels]
    ELSE [x_y |-> NoSampleSet, min_max |-> min_max, evaluated |-> TRUE,
          labels |-> [min_max.labels EXCEPT !.func = FUNC_VALUE_INCORRECT_ERROR]]

\* eval(function_str_modified) with the local x in scope
EvaluateOn(function_str, min_max, x) ==
    Evaluated(function_str, min_max, x, PyEval(ReplacePower(function_str), FuncEnv(x)))

\* validate_function from "if not is_valid" on, min_max being what
\* validate_and_return_min_max returned.
AfterMinMax(function_str, min_max) ==
    IF ~IsValid(function_str, min_max)
    THEN [x_y |-> NoSampleSet, min_max |-> min_max, evaluated |-> FALSE,
          labels |-> min_max.labels]
    ELSE EvaluateOn(function_str, min_max,
                    linspace(min_max.min_value, min_max.max_value, NumSamples))

validate_function(function_str, min_text, max_text, labels) ==
    AfterMinMax(function_str,
                validate_and_return_min_max(min_text, max_text,
                    FunctionLabel(function_str, reset_errors(labels))))

-----------------------------------------------------------------------------
(* The canvas (CustomCanvas) and matplotlib's Axes.plot.                   *)

\* f"f(x) = {function_str}"
TitleOf(function_str) == <<"f", "(", "x", ")", " ", "=", " ">> \o function_str

\* The canvas is the figure as it shows: the number of Axes in it, and the
\* lines, title, grid and axis labels of self.axes.

\* Axes as matplotlib makes them: nothing drawn, no grid, no labels.
NewAxes(n) ==
    [axes |-> n, lines |-> <<>>, title |-> <<>>, grid |-> FALSE, xlabel |-> "",
     ylabel |-> ""]

\* self.axes = None; self.fig = Figure(...)
NewFigure == NewAxes(0)

\* if self.axes: self.axes.cla()
cla(cv) == IF cv.axes > 0 THEN NewAxes(cv.axes) ELSE cv

\* clf that leaves the figure as it is.
clf_skipped(cv) == cv

\* self.fig.clf(): the figure loses its Axes
clf(cv) == NewAxes(0)

\* self.axes = self.fig.add_subplot(111): one more Axes in the figure
add_subplot(cv) == NewAxes(cv.axes + 1)

\* self.axes.grid(): without arguments the grid lines are toggled
grid(cv) == [cv EXCEPT !.grid = ~@]

set_xlabel(cv, text) == [cv EXCEPT !.xlabel = text]

set_ylabel(cv, text) == [cv EXCEPT !.ylabel = text]

default_config(cv) ==
    set_ylabel(set_xlabel(grid(add_subplot(clf(cla(cv)))), "X"), "f(X)")

\* len(v) of an array or a list
PyLen(v) == IF v.kind = "ndarray" THEN v.shape[1] ELSE ListLen(v)

\* axes.plot(x, y) with x one-dimensional: y is converted to an array of
\* numbers and must have x's length as its first dimension; a two-dimensional
\* y gives one line per column.  Otherwise plot raises (ValueError,
\* TypeError) and no line is added.
AxesPlot(x, y) ==
    LET ys == ArrayShape(y)
    IN  IF ys # <<-1>> /\ Len(ys) \in {1, 2} /\ ys[1] = x.shape[1]
        THEN [ok |-> TRUE,
              lines |-> [k \in 1..(IF Len(ys) = 1 THEN 1 ELSE ys[2]) |->
                            [xdata |-> x, ydata |-> y, column |-> k]]]
        ELSE [ok |-> FALSE, lines |-> <<>>]

replot_function(cv, x, y, function_str) ==
    LET titled == [default_config(cv) EXCEPT !.title = TitleOf(function_str)]
        drawn == AxesPlot(x, y)
    IN  [raised |-> ~drawn.ok,
         canvas |-> [titled EXCEPT !.lines = drawn.lines]]

\* BroadcastConstant without the repetition.
BroadcastConstantOnce(x, y) ==
    IF y.kind # "ndarray" /\ y.kind # "list" THEN PyList(<<y>>) ELSE y

\* if not isinstance(y, np.ndarray) and not isinstance(y, list): y = [y] * len(x)
BroadcastConstant(x, y) ==
    IF y.kind # "ndarray" /\ y.kind # "list" THEN PyListTimes(<<y>>, PyLen(x)) ELSE y

\* The arguments of a call of replot_function, or no call (ok is FALSE).
NoDraw == [ok |-> FALSE, x |-> PyNone, y |-> PyNone, function_str |-> <<>>]

-----------------------------------------------------------------------------
(* The state after MainWindow.__init__ and the user's operations.          *)

NoCall ==
    [done |-> FALSE, function_str |-> <<>>, min_text |-> <<>>, max_text |-> <<>>,
     min_max |-> [ok |-> FALSE, min_value |-> NoRational, max_value |-> NoRational],
     evaluated |-> FALSE, x_y |-> NoSampleSet, drawn |-> NoDraw, raised |-> FALSE]

Init ==
    /\ function_input = <<>>
    /\ min_val_input = <<>>
    /\ max_val_input = <<>>
    /\ func_error_label = ""
    /\ min_error_label = ""
    /\ max_error_label = ""
    /\ canvas = default_config(NewFigure)
    /\ toolbar_enabled = FALSE
    /\ call = NoCall

\* A key pressed in the function field, which has no validator.
KeyFunction(c) ==
    /\ Len(function_input) < MaxFuncLen
    /\ function_input' = Append(function_input, c)
    /\ UNCHANGED <<min_val_input, max_val_input, func_error_label, min_error_label,
                   max_error_label, canvas, toolbar_enabled, call>>

\* QTest.keyClicks on the empty function field: a whole text is typed.
TypeFunction(keys) ==
    /\ function_input = <<>>
    /\ function_input' = keys
    /\ UNCHANGED <<min_val_input, max_val_input, func_error_label, min_error_label,
                   max_error_label, canvas, toolbar_enabled, call>>

\* Masked with a validator that keeps every key.
MaskedNothing(text, c) == Append(text, c)

\* The text of a bound field after a key: the validator keeps or drops it.
Masked(text, c) == IF MaskAdmits(Append(text, c)) THEN Append(text, c) ELSE text

KeyMin(c) ==
    /\ Len(min_val_input) < MaxBoundLen
    /\ min_val_input' = Masked(min_val_input, c)
    /\ UNCHANGED <<function_input, max_val_input, func_error_label, min_error_label,
                   max_error_label, canvas, toolbar_enabled, call>>

KeyMax(c) ==
    /\ Len(max_val_input) < MaxBoundLen
    /\ max_val_input' = Masked(max_val_input, c)
    /\ UNCHANGED <<function_input, min_val_input, func_error_label, min_error_label,
                   max_error_label, canvas, toolbar_enabled, call>>

\* QTest.keyClicks on a bound field: the keys go through the validator one
\* by one.
RECURSIVE KeyClicks(_, _)
KeyClicks(text, keys) ==
    IF keys = <<>> THEN text ELSE KeyClicks(Masked(text, Head(keys)), Tail(keys))

\* A whole text typed into the empty minimum field.
TypeMin(keys) ==
    /\ min_val_input = <<>>
    /\ min_val_input' = KeyClicks(min_val_input, keys)
    /\ UNCHANGED <<function_input, max_val_input, func_error_label, min_error_label,
                   max_error_label, canvas, toolbar_enabled, call>>

\* A whole text typed into the empty maximum field.
TypeMax(keys) ==
    /\ max_val_input = <<>>
    /\ max_val_input' = KeyClicks(max_val_input, keys)
    /\ UNCHANGED <<function_input, min_val_input, func_error_label, min_error_label,
                   max_error_label, canvas, toolbar_enabled, call>>

\* The user erases the text of the function field.
ClearFunction ==
    /\ function_input # <<>>
    /\ function_input' = <<>>
    /\ UNCHANGED <<min_val_input, max_val_input, func_error_label, min_error_label,
                   max_error_label, canvas, toolbar_enabled, call>>

\* The user erases the text of the minimum field: the validator lets the
\* empty text through.
ClearMin ==
    /\ min_val_input # <<>>
    /\ min_val_input' = <<>>
    /\ UNCHANGED <<function_input, max_val_input, func_error_label, min_error_label,
                   max_error_label, canvas, toolbar_enabled, call>>

\* The user erases the text of the maximum field.
ClearMax ==
    /\ max_val_input # <<>>
    /\ max_val_input' = <<>>
    /\ UNCHANGED <<function_input, min_val_input, func_error_label, min_error_label,
                   max_error_label, canvas, toolbar_enabled, call>>

\* The minimum field holds a text that was not typed: QLineEdit.setText
\* does not ask the validator, and validate_and_return_min_max reads
\* whatever text() gives.
SetMin(text) ==
    /\ min_val_input' = text
    /\ UNCHANGED <<function_input, max_val_input, func_error_label, min_error_label,
                   max_error_label, canvas, toolbar_enabled, call>>

\* The same for the maximum field.
SetMax(text) ==
    /\ max_val_input' = text
    /\ UNCHANGED <<function_input, min_val_input, func_error_label, min_error_label,
                   max_error_label, canvas, toolbar_enabled, call>>

\* plot() from "if not x_y" on, v being what validate_function returned and
\* left on the labels, cleared the canvas after the first default_config.
PlotOutcome(v, cleared, toolbar) ==
    LET x == v.x_y.x
        y == BroadcastConstant(x, v.x_y.y)
        r == replot_function(cleared, x, y, v.x_y.function_str)
    IN  [labels |-> v.labels,
         canvas |-> IF v.x_y.ok THEN r.canvas ELSE cleared,
         toolbar |-> IF ~v.x_y.ok THEN FALSE
                     ELSE IF r.raised THEN toolbar
                     ELSE TRUE,
         min_max |-> [ok |-> v.min_max.ok,
                      min_value |-> v.min_max.min_value,
                      max_value |-> v.min_max.max_value],
         evaluated |-> v.evaluated,
         x_y |-> v.x_y,
         drawn |-> IF v.x_y.ok
                   THEN [ok |-> TRUE, x |-> x, y |-> y,
                         function_str |-> v.x_y.function_str]
                   ELSE NoDraw,
         raised |-> v.x_y.ok /\ r.raised]

\* MainWindow.plot on the three texts, from the labels, the canvas and the
\* toolbar it finds.
plot(function_str, min_text, max_text, labels, cv, toolbar) ==
    PlotOutcome(validate_function(function_str, min_text, max_text, labels),
                default_config(cv), toolbar)

\* A click on the Plot button: MainWindow.plot runs to its end, or to the
\* exception that replot_function lets through.
Plot ==
    \E o \in {plot(function_input, min_val_input, max_val_input,
                   [func |-> func_error_label, min |-> min_error_label,
                    max |-> max_error_label], canvas, toolbar_enabled)} :
        /\ func_error_label' = o.labels.func
        /\ min_error_label' = o.labels.min
        /\ max_error_label' = o.labels.max
        /\ canvas' = o.canvas
        /\ toolbar_enabled' = o.toolbar
        /\ call' = [done |-> TRUE,
                    function_str |-> function_input,
                    min_text |-> min_val_input,
                    max_text |-> max_val_input,
                    min_max |-> o.min_max,
                    evaluated |-> o.evaluated,
                    x_y |-> o.x_y,
                    drawn |-> o.drawn,
                    raised |-> o.raised]
        /\ UNCHANGED <<function_input, min_val_input, max_val_input>>

\* A session that works on the bounds, key by key: the function is blank,
\* x, or a name that is not defined.
RangeFunctions == {<<" ">>, <<"x">>, <<"x", "x">>}

RangeBoundKeys == {"1", "-", ".", "^"}

Next ==
    \/ \E keys \in RangeFunctions : TypeFunction(keys)
    \/ \E c \in RangeBoundKeys : KeyMin(c)
    \/ \E c \in RangeBoundKeys : KeyMax(c)
    \/ Plot

Spec == Init /\ [][Next]_vars

\* A session that works on the expression, key by key, over the bounds 1
\* and 11.
ExprFunctionKeys == {"x", "2", "^", "n", "p", "[", "]"}

ExprBounds == {<<"1">>, <<"1", "1">>}

NextExpr ==
    \/ \E c \in ExprFunctionKeys : KeyFunction(c)
    \/ \E keys \in ExprBounds : TypeMin(keys)
    \/ \E keys \in ExprBounds : TypeMax(keys)
    \/ Plot

SpecExpr == Init /\ [][NextExpr]_vars

\* A session that plots over the widest intervals: the bounds are typed as
\* whole texts, 0 and the powers of ten next to the largest double.
WideFunctionKeys == {"x", "2"}

WideBounds ==
    {<<"0">>, <<"1", "0", "^", "3", "0", "8">>, <<"-", "1", "0", "^", "3", "0", "8">>}

NextWide ==
    \/ \E c \in WideFunctionKeys : KeyFunction(c)
    \/ \E keys \in WideBounds : TypeMin(keys)
    \/ \E keys \in WideBounds : TypeMax(keys)
    \/ Plot

SpecWide == Init /\ [][NextWide]_vars

\* A session that only types into the bound fields: single keys, and the
\* texts that test_min_max_val_input_field types.
MaskKeys == {"1", "-", "+", ".", "^", "x", " "}

MaskTexts ==
    {<<"x", "a", "c", "s", "f", "a", "s", "f", "a", "s", "f">>,
     <<"1", "2">>,
     <<"-", "1", "2", ".", "2">>,
     <<"-", "d", "s", "a", "f", "v", "a", "s", "f", "a", "s">>,
     <<"1", "3", "^", "2">>,
     <<"w", "d", "w", "d", "w", "^", "w", "w", "f", "w", "f">>,
     <<"1", "3", "^", "2", "^", "3">>}

NextMask ==
    \/ \E c \in MaskKeys : KeyMin(c)
    \/ \E c \in MaskKeys : KeyMax(c)
    \/ \E keys \in MaskTexts : TypeMin(keys)
    \/ \E keys \in MaskTexts : TypeMax(keys)

SpecMask == Init /\ [][NextMask]_vars

\* A session of requests one after the other: the fields are erased and
\* typed anew between two clicks, with the texts of the tests and an
\* expression that gives a list.
SessionFunctions == {<<" ">>, <<"x">>, <<"x", "^", "2">>, <<"[", "]">>}

SessionBounds == {<<"+">>, <<"-">>, <<"-", "1", "0">>, <<"1", "0">>}

NextSession ==
    \/ \E keys \in SessionFunctions : TypeFunction(keys)
    \/ \E keys \in SessionBounds : TypeMin(keys)
    \/ \E keys \in SessionBounds : TypeMax(keys)
    \/ ClearFunction
    \/ ClearMin
    \/ ClearMax
    \/ Plot

SpecSession == Init /\ [][NextSession]_vars

\* The Range Validator as a function of two strings: the bound texts are
\* set whole, blank ones among them.
ValidatorTexts == {<<>>, <<" ">>, <<" ", " ">>, <<"1">>, <<"1", "1">>}

NextTexts ==
    \/ \E keys \in {<<"x">>} : TypeFunction(keys)
    \/ \E text \in ValidatorTexts : SetMin(text)
    \/ \E text \in ValidatorTexts : SetMax(text)
    \/ Plot

SpecTexts == Init /\ [][NextTexts]_vars

-----------------------------------------------------------------------------
(* Properties of the Range Validator and of the order of the checks.       *)

\* C1: whenever both bound texts evaluate to numbers a and b, the validator
\* returns (a, b) with no bound error exactly when a < b; when a >= b,
\* a = b included, it returns no interval and both bound labels show the
\* range message.  The range message is never shown when a bound is empty
\* or malformed.
C1_RangeValidator ==
    call.done =>
        LET a == EvalBound(call.min_text)
            b == EvalBound(call.max_text)
            both == a.ok /\ b.ok
        IN  /\ (both /\ RatLess(a.val.val, b.val.val)) =>
                  /\ call.min_max = [ok |-> TRUE, min_value |-> a.val.val,
                                     max_value |-> b.val.val]
                  /\ min_error_label = ""
                  /\ max_error_label = ""
            /\ (both /\ ~RatLess(a.val.val, b.val.val)) =>
                  /\ ~call.min_max.ok
                  /\ min_error_label = MIN_MAX_ERROR
                  /\ max_error_label = MIN_MAX_ERROR
            /\ ~both =>
                  /\ ~call.min_max.ok
                  /\ min_error_label # MIN_MAX_ERROR
                  /\ max_error_label # MIN_MAX_ERROR

\* Two different texts of the same number were rejected as a range.
C1_Witness ==
    /\ call.done
    /\ call.min_text = <<"1">>
    /\ call.max_text = <<"1", ".">>
    /\ min_error_label = MIN_MAX_ERROR
    /\ max_error_label = MIN_MAX_ERROR

\* The label a bound's own text calls for when the interval is not checked.
OwnLabel(text, empty_error, incorrect_error) ==
    IF text = <<>> THEN empty_error
    ELSE IF ~EvalBound(text).ok THEN incorrect_error
    ELSE ""

\* C2: the three fields are validated without short-circuit: the function
\* label shows function-empty exactly when the function text is blank, and
\* whenever a bound is empty or malformed each bound's label is set by that
\* bound's own text alone.
C2_NoShortCircuit ==
    call.done =>
        /\ (func_error_label = FUNC_VALUE_EMPTY_ERROR) <=> IsBlank(call.function_str)
        /\ (~EvalBound(call.min_text).ok \/ ~EvalBound(call.max_text).ok) =>
              /\ min_error_label = OwnLabel(call.min_text, MIN_VALUE_EMPTY_ERROR,
                                            MIN_VALUE_INCORRECT_ERROR)
              /\ max_error_label = OwnLabel(call.max_text, MAX_VALUE_EMPTY_ERROR,
                                            MAX_VALUE_INCORRECT_ERROR)

\* A blank function, an empty min and a malformed max reported together.
C2_Witness ==
    /\ call.done
    /\ call.function_str = <<" ">>
    /\ func_error_label = FUNC_VALUE_EMPTY_ERROR
    /\ min_error_label = MIN_VALUE_EMPTY_ERROR
    /\ max_error_label = MAX_VALUE_INCORRECT_ERROR

\* C4: the expression is evaluated only after the function text was found
\* non-blank and the bounds gave a valid interval, so the function-invalid
\* message never shows together with a min or max message.
C4_EvaluationLast ==
    call.done =>
        /\ call.evaluated => (~IsBlank(call.function_str) /\ call.min_max.ok)
        /\ func_error_label = FUNC_VALUE_INCORRECT_ERROR =>
              (min_error_label = "" /\ max_error_label = "")

\* An expression that does not evaluate was reported, over a valid interval.
C4_Witness ==
    /\ call.evaluated
    /\ func_error_label = FUNC_VALUE_INCORRECT_ERROR
    /\ call.min_max.ok

-----------------------------------------------------------------------------
(* Properties of the evaluation of the expression and of the drawing.      *)

\* The text names something other than x.
NamesOtherThanX(text) ==
    LET ts == Lex(text, 1)
    IN  \E i \in 1..Len(ts) : ts[i].type = "name" /\ ts[i].text # <<"x">>

\* C3: over a valid interval, every non-blank expression that refers to an
\* identifier other than x gives the function-invalid message, no Sample
\* Set, no curve and a disabled toolbar.
C3_OtherNamesRejected ==
    (call.done /\ call.min_max.ok /\ ~IsBlank(call.function_str)
        /\ NamesOtherThanX(call.function_str)) =>
        /\ func_error_label = FUNC_VALUE_INCORRECT_ERROR
        /\ ~call.x_y.ok
        /\ canvas.lines = <<>>
        /\ ~toolbar_enabled

\* C5: no exception escapes plot(), and the request ends with a drawn
\* Sample Set or with an error message.
C5_NothingEscapes ==
    call.done =>
        /\ ~call.raised
        /\ \/ canvas.lines # <<>>
           \/ func_error_label # ""
           \/ min_error_label # ""
           \/ max_error_label # ""

\* C6: the x and y handed to replot_function both have length 1000.
C6_EqualLengths ==
    call.drawn.ok =>
        /\ PyLen(call.drawn.x) = 1000
        /\ PyLen(call.drawn.y) = 1000

\* C8: an expression that evaluates to a single number c is plotted as one
\* curve whose y-sequence is as long as the x-sequence and holds c only.
C8_ConstantBroadcast ==
    (call.x_y.ok /\ call.x_y.y.kind \in {"int", "float", "float64"}) =>
        /\ ~call.raised
        /\ Len(canvas.lines) = 1
        /\ LET ydata == canvas.lines[1].ydata
               xdata == canvas.lines[1].xdata
           IN  /\ ydata.kind = "list"
               /\ ListLen(ydata) = PyLen(xdata)
               /\ \A k \in 1..Len(ydata.elems) : ydata.elems[k] = call.x_y.y

\* The constant 2 was plotted.
C8_Witness ==
    /\ call.x_y.ok
    /\ call.function_str = <<"2">>
    /\ Len(canvas.lines) = 1
    /\ toolbar_enabled

\* C9: the title of every plotted expression is "f(x) = " and then the text
\* as it was typed, with ^ and not with **.
C9_TitleEchoesText ==
    (call.done /\ canvas.lines # <<>>) =>
        canvas.title = <<"f", "(", "x", ")", " ", "=", " ">> \o call.function_str

\* An expression with ^ was plotted.
C9_Witness ==
    /\ canvas.lines # <<>>
    /\ call.function_str = <<"x", "^", "2">>
    /\ canvas.title = <<"f", "(", "x", ")", " ", "=", " ", "x", "^", "2">>

\* C10: after every request, one curve and an enabled toolbar when the
\* validation and the evaluation succeeded, no curve and a disabled toolbar
\* when the request failed.
C10_CurveAndToolbar ==
    call.done =>
        IF call.x_y.ok
        THEN Len(canvas.lines) = 1 /\ toolbar_enabled
        ELSE canvas.lines = <<>> /\ ~toolbar_enabled

-----------------------------------------------------------------------------
(* Properties of the sampled x values.                                     *)

\* x[i] of an array of numbers, i a 0-based index.
ItemAt(x, i) == Subscript(x, PyInt(RatInt(i))).val.val

\* C7: on a successful request over (min, max) the x-sequence has exactly
\* 1000 points, strictly increasing and evenly spaced, the first equal to
\* min and the last equal to max.
C7_SamplePoints ==
    call.x_y.ok =>
        LET x == call.x_y.x
        IN  /\ x.kind = "ndarray"
            /\ x.shape = <<1000>>
            /\ ItemAt(x, 0) = call.min_max.min_value
            /\ ItemAt(x, 999) = call.min_max.max_value
            /\ \A i \in 0..998 : RatLess(ItemAt(x, i), ItemAt(x, i + 1))
            /\ \A i \in 0..997 :
                  RatSub(ItemAt(x, i + 1), ItemAt(x, i))
                      = RatSub(ItemAt(x, i + 2), ItemAt(x, i + 1))

-----------------------------------------------------------------------------
(* Properties of the error labels across requests.                         *)

\* The labels a request on the three texts leaves when it starts from blank
\* labels.
LabelsOf(function_str, min_text, max_text) ==
    validate_function(function_str, min_text, max_text,
                      [func |-> "", min |-> "", max |-> ""]).labels

\* C11: after a request with valid input the function, min and max labels
\* are all empty, whatever earlier requests left on them; after any request
\* the labels are those the request's own texts call for, so none shows a
\* message of an earlier request.
C11_LabelsReset ==
    call.done =>
        /\ call.x_y.ok =>
              (func_error_label = "" /\ min_error_label = "" /\ max_error_label = "")
        /\ [func |-> func_error_label, min |-> min_error_label,
            max |-> max_error_label]
              = LabelsOf(call.function_str, call.min_text, call.max_text)

\* A valid request drew its curve and left the three labels empty.
C11_Witness ==
    /\ call.done
    /\ call.x_y.ok
    /\ call.function_str = <<"x", "^", "2">>
    /\ call.min_text = <<"-", "1", "0">>
    /\ call.max_text = <<"1", "0">>
    /\ canvas.lines # <<>>
    /\ func_error_label = ""
    /\ min_error_label = ""
    /\ max_error_label = ""

-----------------------------------------------------------------------------
(* Properties of the input mask of the bound fields.                       *)

\* s[i..j] holds digits only.
AllDigits(s, i, j) == \A k \in i..j : s[k] \in Digits

\* [0-9]*\.?[0-9]+ matches the whole of m.
MantissaMatches(m) ==
    /\ m # <<>>
    /\ \/ AllDigits(m, 1, Len(m))
       \/ \E k \in 1..(Len(m) - 1) :
              m[k] = "." /\ AllDigits(m, 1, k - 1) /\ AllDigits(m, k + 1, Len(m))

\* [-+]?[0-9]+ matches the whole of e.
ExponentMatches(e) ==
    /\ e # <<>>
    /\ LET from == IF e[1] \in {"-", "+"} THEN 2 ELSE 1
       IN  from <= Len(e) /\ AllDigits(e, from, Len(e))

\* The pattern of the validator matches the whole of s.
Matches(s) ==
    LET u == IF s # <<>> /\ s[1] \in {"-", "+"} THEN Tail(s) ELSE s
    IN  \/ MantissaMatches(u)
        \/ \E k \in 1..Len(u) :
               /\ u[k] = "^"
               /\ MantissaMatches(SubSeq(u, 1, k - 1))
               /\ ExponentMatches(SubSeq(u, k + 1, Len(u)))

\* The texts of at most two characters that can end a match.
MaskCompletions ==
    LET keys == {"1", ".", "^", "-"}
    IN  {<<>>} \cup {<<a>> : a \in keys} \cup {<<a, b>> : a \in keys, b \in keys}

\* s is the start of some text that the pattern matches.
IsPrefixOfMatch(s) == \E t \in MaskCompletions : Matches(s \o t)

\* What the claim says a key does to the text of a bound field.
KeyKeptOrDropped(text, c) ==
    Masked(text, c) = IF IsPrefixOfMatch(Append(text, c)) THEN Append(text, c) ELSE text

\* C12: the text of a bound field is always the start of a text matching
\* the pattern (optional sign, digits, optional point and digits, optional ^
\* with optional sign and digits); a key that would break this is dropped
\* and leaves the text as it was.  Typing 13^2^3 leaves 13^23, typing
\* -dsafvasfas leaves -, typing xacsfasfasf leaves the field empty.
C12_InputMask ==
    /\ IsPrefixOfMatch(min_val_input)
    /\ IsPrefixOfMatch(max_val_input)
    /\ \A c \in MaskKeys : /\ KeyKeptOrDropped(min_val_input, c)
                           /\ KeyKeptOrDropped(max_val_input, c)
    /\ KeyClicks(<<>>, <<"1", "3", "^", "2", "^", "3">>) = <<"1", "3", "^", "2", "3">>
    /\ KeyClicks(<<>>, <<"-", "d", "s", "a", "f", "v", "a", "s", "f", "a", "s">>) = <<"-">>
    /\ KeyClicks(<<>>, <<"x", "a", "c", "s", "f", "a", "s", "f", "a", "s", "f">>) = <<>>

\* 13^2^3 was typed into the minimum field and -dsafvasfas into the maximum
\* field: the second ^ and the letters were dropped.
C12_Witness ==
    /\ min_val_input = <<"1", "3", "^", "2", "3">>
    /\ max_val_input = <<"-">>

-----------------------------------------------------------------------------
(* Properties of the bound texts that the mask admits and the validator    *)
(* rejects.                                                                *)

\* A lone + or a lone -.
LoneSigns == {<<"+">>, <<"-">>}

\* What a request shows when the text of one bound is a lone sign: that
\* bound's label and the other bound's label.
LoneSignRejected(own_label, incorrect_error, other_text, other_label) ==
    /\ own_label = incorrect_error
    /\ EvalBound(other_text).ok => other_label = ""
    /\ ~call.x_y.ok
    /\ canvas.lines = <<>>
    /\ ~toolbar_enabled

\* C13: a lone + or a lone - passes the input mask without being a complete
\* number, and a request with it as a bound gives that field's invalid
\* message, not its empty message, no message for the other bound when that
\* one is valid, no curve and a disabled toolbar.
C13_LoneSign ==
    /\ \A s \in LoneSigns : MaskAdmits(s) /\ ~Matches(s)
    /\ (call.done /\ call.min_text \in LoneSigns) =>
          LoneSignRejected(min_error_label, MIN_VALUE_INCORRECT_ERROR,
                           call.max_text, max_error_label)
    /\ (call.done /\ call.max_text \in LoneSigns) =>
          LoneSignRejected(max_error_label, MAX_VALUE_INCORRECT_ERROR,
                           call.min_text, min_error_label)

\* x^2 was requested from - to 10.
C13_Witness ==
    /\ call.done
    /\ call.function_str = <<"x", "^", "2">>
    /\ call.min_text = <<"-">>
    /\ call.max_text = <<"1", "0">>
    /\ min_error_label = MIN_VALUE_INCORRECT_ERROR
    /\ max_error_label = ""
    /\ canvas.lines = <<>>
    /\ ~toolbar_enabled

\* The text is not empty and holds blanks only.
WhitespaceOnly(text) == text # <<>> /\ IsBlank(text)

-----------------------------------------------------------------------------
(* Properties of the canvas.                                               *)

\* The empty state of the canvas: one Axes with no curve, no title, the
\* grid and the default axis labels.
EmptyCanvas ==
    [axes |-> 1, lines |-> <<>>, title |-> <<>>, grid |-> TRUE, xlabel |-> "X",
     ylabel |-> "f(X)"]

\* C15: default_config is idempotent: from every state of the canvas, with
\* or without a curve, calling it twice in a row leaves the same empty
\* state (no curve, no title, default axis labels) as calling it once.
C15_ResetIdempotent ==
    /\ default_config(canvas) = EmptyCanvas
    /\ default_config(default_config(canvas)) = default_config(canvas)

\* A titled curve is on the canvas: the request that drew it ran
\* default_config in plot and again in replot_function.
C15_Witness ==
    /\ call.done
    /\ ~call.raised
    /\ canvas.lines # <<>>
    /\ canvas.title # <<>>
    /\ canvas # EmptyCanvas

-----------------------------------------------------------------------------
(* Properties of a request as a function of the three texts.               *)

\* The outcome of a request on the three texts in a window that has just
\* been opened.
FirstRequest(function_str, min_text, max_text) ==
    plot(function_str, min_text, max_text, [func |-> "", min |-> "", max |-> ""],
         default_config(NewFigure), FALSE)

\* The window shows the outcome o, and the last request returned o's Sample
\* Set.
ShowsOutcome(o) ==
    /\ func_error_label = o.labels.func
    /\ min_error_label = o.labels.min
    /\ max_error_label = o.labels.max
    /\ call.x_y = o.x_y
    /\ canvas = o.canvas
    /\ toolbar_enabled = o.toolbar

\* C16: the outcome of a request depends on the three texts at the time of
\* the request only: whatever requests came before, the error labels, the
\* Sample Set, the canvas with its title and the state of the toolbar are
\* those of the same request made first in a new window.
C16_OutcomeOfTextsOnly ==
    call.done =>
        ShowsOutcome(FirstRequest(call.function_str, call.min_text, call.max_text))

=============================================================================
